---- MODULE Spec2Model ----
(***************************************************************************)
(* Client-side router of spa-with-pure-js: EnhancedRoutes                  *)
(* (app/enhanced-routes.js), its callers navigate / loadPageContent /      *)
(* window.onpopstate / initializePage (app/app.js) and the session state   *)
(* globalScope (app/global-scope.js).                                      *)
(*                                                                         *)
(* JavaScript runs the handlers on one thread.  An action of this module   *)
(* is one synchronous run of code: from the start of a handler, or from    *)
(* the moment an awaited guard, hook or content provider settles, up to    *)
(* the next await of such a call.  Guards, hooks and content providers are *)
(* callables supplied by the application; how a call settles is chosen     *)
(* nondeterministically when it settles.                                   *)
(***************************************************************************)
EXTENDS Integers, Sequences, FiniteSets, TLC

\* ------------------------------------------------------------------ bounds
\* Navigation attempts started after the initial page load.
MaxNav == 2
\* Longest guard list of a route.
MaxGuards == 2
\* registerRoute calls made on one router.
MaxRegister == 2
\* Largest retryAttempts an APIService is constructed with.
MaxRetry == 3
\* Operations called on one Component.
MaxOps == 3
\* Calls made on one FormValidator.
MaxFormOps == 3

\* The slots of the navigation attempts in flight: two attempts can overlap,
\* and a slot is taken again once its attempt has settled.
Attempts == {1, 2}

\* ------------------------------------------------------------- route table
\* ROUTES.HOME and ROUTES.NOT_FOUND of config/constants.js
HOME == "home"
NOT_FOUND == "not-found"

\* Paths a click or a typed address can name.  "home" and
\* "index.html" are the two paths of one page (pages/home/home.js), "admin" is
\* a page with guards, "missing" is in no page's path list.
NavPaths == {"home", "admin", "missing"}

\* The list of page instances handed to the EnhancedRoutes constructor:
\* each has its paths, the content its getPageContent() resolves with, and its
\* guards (a guard is an opaque callable: only their number is kept).
classPagesList ==
  << [paths |-> <<"home", "index.html">>, page |-> "Home", guards |-> 0],
     [paths |-> <<"admin">>, page |-> "Admin", guards |-> MaxGuards],
     [paths |-> <<NOT_FOUND>>, page |-> "NotFound", guards |-> 0] >>

Range(s) == {s[i] : i \in DOMAIN s}

RegisteredPaths == UNION {Range(classPagesList[i].paths) : i \in DOMAIN classPagesList}

PageOf(p) == CHOOSE i \in DOMAIN classPagesList : p \in Range(classPagesList[i].paths)

\* EnhancedRoutes constructor: this.pages
ConstructPages == [p \in RegisteredPaths |-> classPagesList[PageOf(p)].page]

\* EnhancedRoutes constructor: this.routeConfig
ConstructRouteConfig == [p \in RegisteredPaths |-> [guards |-> classPagesList[PageOf(p)].guards]]

\* ------------------------------------------------------------------ values
Undefined == "undefined"

\* What the Content Sink (innerHTML of #content) can hold.
InitialContent == [kind |-> "initial", of |-> ""]
LoadingPlaceholder == [kind |-> "loading", of |-> ""]
NavErrorPanel == [kind |-> "navError", of |-> ""]
PageContent(page) == [kind |-> "page", of |-> page]

\* How a guard call settles: a truthy value, a falsy value, or a throw /
\* rejection.  What a guard does on its own besides (RouteGuards.authGuard
\* pushes /login before it denies) is not part of the router.
GuardOutcomes == {"allow", "deny", "throw"}
\* How a hook call settles.
HookOutcomes == {"ok", "throw"}
\* How a content provider call settles.
ProviderOutcomes == {"resolve", "reject"}

\* ------------------------------------------------- the other subsystems
\* No APIService has been constructed yet.
NoError == [code |-> "none", hasStatus |-> FALSE, status |-> 0]

NoService ==
  [pc |-> "none", given |-> FALSE, arg |-> 0, retryAttempts |-> 0, attempt |-> 0,
   fetches |-> 0, delays |-> <<>>, outcomes |-> <<>>, result |-> "none",
   lastError |-> NoError, thrown |-> NoError]

\* new Component(props): no element, not mounted; the container it will be
\* mounted into is empty and no lifecycle method has been called.
\* element: this.element is not null; mounted: this._mounted; container: what
\* the mount target holds; calls: the operations called and the calls they
\* made, each with the component as it was at the call.
NewComponent ==
  [element |-> FALSE, mounted |-> FALSE, container |-> "empty", calls |-> <<>>]

\* No FormValidator has been constructed yet.
NoCall == [op |-> "none", field |-> "", returned |-> TRUE]

\* elements: the named fields of the form and their values; fields: the
\* entries of this.fields in insertion order; errors: this.errors; last: the
\* latest call and what it returned; n: the calls so far.
NoValidator ==
  [pc |-> "none", elements |-> <<>>, fields |-> <<>>, errors |-> <<>>,
   last |-> NoCall, n |-> 0]

VARIABLES
  pages,        \* EnhancedRoutes.pages: path -> content provider
  routeConfig,  \* EnhancedRoutes.routeConfig: path -> route configuration
  config,       \* EnhancedRoutes.config: which hooks are registered
  sink,         \* innerHTML of the element with id "content"
  history,      \* the browser's session history: sequence of addresses
  hidx,         \* index of the current history entry
  count,        \* globalScope.count
  hash,         \* window.location.hash without its '#'
  pageReloads,  \* sessionStorage 'page-reloads-count' (0: no such key)
  loaded,       \* initializePage has run
  pc,           \* per attempt: where its async call chain is suspended
  kind,         \* per attempt: "navigate", "popstate" or "init"
  path,         \* per attempt: the path argument
  gi,           \* per attempt: index of the guard being awaited
  steps,        \* per attempt: the steps it has performed, in order
  errLog,       \* per attempt: the (error, path) pairs passed to onError
  upc,          \* per attempt: how updatePageContent's promise settled
  nav,          \* per attempt: how the caller's promise settled
  last,         \* the attempt started most recently (0: none yet)
  solo,         \* no other attempt was in flight when attempt last started
  reg,          \* the registerRoute calls so far: their number, the last one
  api,          \* an APIService instance and the request it is serving
  comp,         \* a Component instance, its container and its last operation
  form          \* a FormValidator instance and the form it validates

vars == <<pages, routeConfig, config, sink, history, hidx, count, hash,
          pageReloads, loaded, pc, kind, path, gi, steps, errLog, upc, nav,
          last, solo, reg, api, comp, form>>

\* The variables of the router and of the page it runs in.
routerVars == <<pages, routeConfig, config, sink, history, hidx, count, hash,
                pageReloads, loaded, pc, kind, path, gi, steps, errLog, upc, nav,
                last, solo, reg>>

\* ------------------------------------------------- one attempt's view
\* The operators below transform a record x: the shared state (sink, history,
\* hidx, count) together with the fields of the attempt that is running.
View(a) ==
  [sink |-> sink, history |-> history, hidx |-> hidx, count |-> count,
   pc |-> pc[a], kind |-> kind[a], path |-> path[a], gi |-> gi[a],
   steps |-> steps[a], errLog |-> errLog[a], upc |-> upc[a], nav |-> nav[a]]

\* Attempt x performs step s.  The steps of an attempt are the calls it makes
\* ("push", "guard", "before", "provider", "after"), how each awaited call
\* settles ("guard:allow", "provider:reject", ...) and its writes to the
\* Content Sink ("loading", "swap", "errorPanel", "navError").
Step(x, s) == [x EXCEPT !.steps = Append(@, s)]

\* window.history.pushState(state, '', `/${p}`): entries after the current one
\* are dropped and the new address becomes the current entry.
pushState(x, p) ==
  [x EXCEPT !.history = Append(SubSeq(@, 1, x.hidx), p), !.hidx = @ + 1]

\* window.history.replaceState(state, '', `/${p}`)
replaceState(x, p) == [x EXCEPT !.history[x.hidx] = p]

\* window.location.pathname.substring(1)
Address == history[hidx]

\* ------------------------------------------------------------ app/app.js
showNavigationError(x) == Step([x EXCEPT !.sink = NavErrorPanel], "navError")

\* The caller of updatePageContent once its promise is fulfilled:
\* loadPageContent returns, and navigate / onpopstate return after it.
CallerOnFulfil(x) == [x EXCEPT !.pc = "Idle", !.nav = "resolved"]

\* CallerOnReject without the catch of navigate and onpopstate: the caller's
\* promise is rejected with the error.
CallerOnReject_NoCatch(x) == [x EXCEPT !.pc = "Idle", !.nav = "rejected"]

\* The caller of updatePageContent once its promise is rejected:
\* loadPageContent's catch re-throws; navigate and onpopstate catch the error
\* and show the navigation error; initializePage did not await the promise,
\* so its catch never sees the rejection.
CallerOnReject(x) ==
  IF x.kind = "init"
    THEN [x EXCEPT !.pc = "Idle", !.nav = "rejected"]
    ELSE [showNavigationError(x) EXCEPT !.pc = "Idle", !.nav = "resolved"]

\* ------------------------------------------------ app/enhanced-routes.js
\* this.routeConfig.get(path) || this.routeConfig.get('not-found'); a record
\* without guards stands for undefined.
getRouteConfig(p) ==
  IF p \in DOMAIN routeConfig THEN routeConfig[p]
  ELSE IF NOT_FOUND \in DOMAIN routeConfig THEN routeConfig[NOT_FOUND]
  ELSE [undefined |-> TRUE]

\* this.pages.get(path) || this.pages.get('not-found')
getContentFunction(p) ==
  IF p \in DOMAIN pages THEN pages[p]
  ELSE IF NOT_FOUND \in DOMAIN pages THEN pages[NOT_FOUND]
  ELSE Undefined

getErrorPageContent(error) == [kind |-> "error", of |-> error]

\* showLoadingState adding the placeholder to what the element holds
\* (innerHTML +=) instead of replacing it.
showLoadingState_Append(x) ==
  Step([x EXCEPT !.sink = [kind |-> "mix", of |-> x.sink.kind]], "loading")

showLoadingState(x) == Step([x EXCEPT !.sink = LoadingPlaceholder], "loading")

\* updatePageContent returns: canNavigate was false ("denied") or the cycle
\* ran to its end ("resolved").
updateFulfil(x, how) == CallerOnFulfil([x EXCEPT !.upc = how])

\* An error leaves updatePageContent.
updateReject(x) == CallerOnReject([x EXCEPT !.upc = "rejected"])

\* this.config.onError(error, path), not awaited
onError(x, error) == [x EXCEPT !.errLog = Append(@, <<error, x.path>>)]

\* updateCatch without the assignment of the error page to the element.
updateCatch_NoPanel(x, error, h) ==
  IF config.onError
    THEN IF h = "throw" THEN updateReject(onError(x, error))
         ELSE updateFulfil(onError(x, error), "resolved")
    ELSE updateFulfil(x, "resolved")

\* updatePageContent's catch block: the error page replaces the content and
\* the error hook is called; h is how that call ends.
updateCatch(x, error, h) ==
  LET x1 == Step([x EXCEPT !.sink = getErrorPageContent(error)], "errorPanel")
  IN IF config.onError
       THEN IF h = "throw" THEN updateReject(onError(x1, error))
            ELSE updateFulfil(onError(x1, error), "resolved")
       ELSE updateFulfil(x1, "resolved")

\* updateSwap dropping the content when another attempt has written to the
\* element since this attempt showed its loading state.
updateSwap_DropStale(x, content) ==
  LET x1 == Step([x EXCEPT !.sink = IF x.sink = LoadingPlaceholder THEN content ELSE @], "swap")
  IN IF config.onAfterNavigate
       THEN Step([x1 EXCEPT !.pc = "AfterHook"], "after")
       ELSE updateFulfil(x1, "resolved")

\* updatePageContent after getPageContent has returned content: the content
\* swap, then the after-navigation hook.
updateSwap(x, content) ==
  LET x1 == Step([x EXCEPT !.sink = content], "swap")
  IN IF config.onAfterNavigate
       THEN Step([x1 EXCEPT !.pc = "AfterHook"], "after")
       ELSE updateFulfil(x1, "resolved")

\* getPageContent's catch block (the provider failed with error): the error
\* hook is called and the error page is returned as the content; an error
\* thrown by the hook leaves getPageContent and lands in updatePageContent's
\* catch block.  h1, h2: how the first and the second onError call end.
getPageContentCatch(x, error, h1, h2) ==
  IF config.onError
    THEN IF h1 = "throw" THEN updateCatch(onError(x, error), "hookErr", h2)
         ELSE updateSwap(onError(x, error), getErrorPageContent(error))
    ELSE updateSwap(x, getErrorPageContent(error))

\* updatePageContent's try block up to the provider call: the loading state,
\* then getPageContent looks the provider up and calls it.
updateTry(x, h1, h2) ==
  LET x1 == showLoadingState(x)
  IN IF getContentFunction(x.path) = Undefined
       THEN getPageContentCatch(x1, "TypeError", h1, h2)
       ELSE Step([x1 EXCEPT !.pc = "Resolving"], "provider")

\* updateBefore with the loading state shown before the hook is called.
updateBefore_LoadingFirst(x, h1, h2) ==
  IF config.onBeforeNavigate
    THEN Step(showLoadingState([x EXCEPT !.pc = "BeforeHook"]), "before")
    ELSE updateTry(x, h1, h2)

\* updatePageContent after runGuards returned true: the before-navigation
\* hook, awaited outside the try block.
updateBefore(x, h1, h2) ==
  IF config.onBeforeNavigate
    THEN Step([x EXCEPT !.pc = "BeforeHook"], "before")
    ELSE updateTry(x, h1, h2)

\* The number of guards runGuards finds for the path.
GuardCount(p) ==
  IF "guards" \in DOMAIN getRouteConfig(p) THEN getRouteConfig(p).guards ELSE 0

\* updatePageContent with the loading state shown before the guards run.
updatePageContent_LoadingFirst(x, h1, h2) ==
  IF GuardCount(x.path) = 0
    THEN updateBefore(x, h1, h2)
    ELSE Step(showLoadingState([x EXCEPT !.pc = "GuardCheck", !.gi = 1]), "guard")

\* updatePageContent from its first line: runGuards calls the first guard, or
\* returns true when there is none.
updatePageContent(x, h1, h2) ==
  IF GuardCount(x.path) = 0
    THEN updateBefore(x, h1, h2)
    ELSE Step([x EXCEPT !.pc = "GuardCheck", !.gi = 1], "guard")

\* loadPageContent(page): the navigation count, then updatePageContent.
loadPageContent(x, h1, h2) ==
  updatePageContent([x EXCEPT !.count = @ + 1], h1, h2)

\* navigate without the await on loadPageContent (as initializePage calls
\* it): its promise is fulfilled as soon as the first synchronous run ends.
navigate_NoAwait(x, h1, h2) ==
  [loadPageContent(Step(pushState(x, x.path), "push"), h1, h2) EXCEPT !.nav = "resolved"]

\* navigate(event, page) with a click event.
navigate(x, h1, h2) ==
  loadPageContent(Step(pushState(x, x.path), "push"), h1, h2)

\* ------------------------------------------------------------ the machine
\* The addresses the page can be loaded at: pathname and hash.
InitialLocations ==
  { [pathname |-> "", hash |-> ""], [pathname |-> "index.html", hash |-> ""],
    [pathname |-> "admin", hash |-> ""], [pathname |-> "", hash |-> "admin"] }

\* The hooks handed to the EnhancedRoutes constructor: each of the three is
\* a function or null (app/global-scope.js registers the last two).
HookConfigs == [onBeforeNavigate : BOOLEAN, onAfterNavigate : BOOLEAN, onError : BOOLEAN]

\* The page before initializePage has run, the constructor's options being
\* one of configs, whatever the route table is.
InitSessionWith(configs) ==
  /\ config \in configs
  /\ sink = InitialContent
  /\ \E loc \in InitialLocations : history = <<loc.pathname>> /\ hash = loc.hash
  /\ hidx = 1
  /\ count = -1
  /\ pageReloads = 0
  /\ loaded = FALSE
  /\ pc = [a \in Attempts |-> "Idle"]
  /\ kind = [a \in Attempts |-> "none"]
  /\ path = [a \in Attempts |-> ""]
  /\ gi = [a \in Attempts |-> 0]
  /\ steps = [a \in Attempts |-> <<>>]
  /\ errLog = [a \in Attempts |-> <<>>]
  /\ upc = [a \in Attempts |-> "none"]
  /\ nav = [a \in Attempts |-> "none"]
  /\ last = 0
  /\ solo = TRUE
  /\ reg = [n |-> 0, path |-> "", provider |-> "", config |-> [title |-> "none"], threw |-> FALSE]
  /\ api = NoService
  /\ comp = NewComponent
  /\ form = NoValidator

\* The page before initializePage has run, whatever the route table is.
InitSession == InitSessionWith(HookConfigs)

Init ==
  /\ pages = ConstructPages
  /\ routeConfig = ConstructRouteConfig
  /\ InitSession

\* A fresh attempt of kind k for path p in slot a.
Fresh(a, k, p) ==
  [View(a) EXCEPT !.kind = k, !.path = p, !.gi = 0, !.steps = <<>>,
                  !.errLog = <<>>, !.upc = "pending", !.nav = "pending"]

\* The state after the synchronous run that produced x for attempt a.  The
\* record of a settled attempt (its kind, path, steps, errLog, upc and nav) is
\* kept until the next attempt starts: when x is a new attempt, the slots of
\* the settled ones are cleared.
Commit(a, x) ==
  LET new == pc[a] = "Idle"
      Keep(f, b, empty) == IF new /\ pc[b] = "Idle" THEN empty ELSE f[b]
  IN
  /\ sink' = x.sink
  /\ history' = x.history
  /\ hidx' = x.hidx
  /\ count' = x.count
  /\ pc' = [pc EXCEPT ![a] = x.pc]
  /\ kind' = [b \in Attempts |-> IF b = a THEN x.kind ELSE Keep(kind, b, "none")]
  /\ path' = [b \in Attempts |-> IF b = a THEN x.path ELSE Keep(path, b, "")]
  /\ gi' = [b \in Attempts |-> IF b = a THEN x.gi ELSE Keep(gi, b, 0)]
  /\ steps' = [b \in Attempts |-> IF b = a THEN x.steps ELSE Keep(steps, b, <<>>)]
  /\ errLog' = [b \in Attempts |-> IF b = a THEN x.errLog ELSE Keep(errLog, b, <<>>)]
  /\ upc' = [b \in Attempts |-> IF b = a THEN x.upc ELSE Keep(upc, b, "none")]
  /\ nav' = [b \in Attempts |-> IF b = a THEN x.nav ELSE Keep(nav, b, "none")]
  /\ UNCHANGED <<pages, routeConfig, config, reg, api, comp, form>>

\* Attempt a starts now.
Started(a) ==
  /\ last' = a
  /\ solo' = \A b \in Attempts : pc[b] = "Idle"

\* An attempt already started goes on.
Continued == UNCHANGED <<hash, pageReloads, loaded, last, solo>>

\* The slot a new attempt takes: the lowest one whose attempt has settled.
FreeSlot(a) == pc[a] = "Idle" /\ \A b \in Attempts : pc[b] = "Idle" => a <= b

\* initializePage(): the initial page from the address, replaceState, the
\* un-awaited loadPageContent and the page-reloads count.
InitializePage(a) ==
  /\ ~loaded
  /\ FreeSlot(a)
  /\ LET pathname == history[hidx]
         initialPage == IF pathname # ""
                          THEN (IF pathname = "index.html" THEN HOME ELSE pathname)
                          ELSE IF hash # "" THEN hash ELSE HOME
     IN \E h1, h2 \in HookOutcomes :
          Commit(a, loadPageContent(replaceState(Fresh(a, "init", initialPage), initialPage), h1, h2))
  /\ Started(a)
  /\ hash' = ""
  /\ pageReloads' = IF pageReloads # 0 THEN pageReloads + 1 ELSE 1
  /\ loaded' = TRUE

\* A click on a link: navigate(event, page).
Navigate(a) ==
  /\ loaded
  /\ count < MaxNav
  /\ FreeSlot(a)
  /\ \E p \in NavPaths : \E h1, h2 \in HookOutcomes :
        Commit(a, navigate(Fresh(a, "navigate", p), h1, h2))
  /\ Started(a)
  /\ UNCHANGED <<hash, pageReloads, loaded>>

\* window.onpopstate calling updatePageContent without going through its
\* guards.
onpopstate_NoGuards(x, h1, h2) == updateBefore([x EXCEPT !.count = @ + 1], h1, h2)

\* window.onpopstate once the page is derived from the address: the same
\* loadPageContent as navigate calls, without pushState or replaceState.
onpopstate(x, h1, h2) == loadPageContent(x, h1, h2)

\* The user presses the back or the forward button: the browser makes the
\* entry before or after the current one the current entry and
\* window.onpopstate runs.
PopState(a) ==
  /\ loaded
  /\ count < MaxNav
  /\ FreeSlot(a)
  /\ \E j \in {hidx - 1, hidx + 1} \cap (1..Len(history)) :
       LET page == IF history[j] # "" THEN history[j]
                   ELSE IF hash # "" THEN hash ELSE HOME
       IN \E h1, h2 \in HookOutcomes :
            Commit(a, onpopstate([Fresh(a, "popstate", page) EXCEPT !.hidx = j], h1, h2))
  /\ Started(a)
  /\ UNCHANGED <<hash, pageReloads, loaded>>

\* runGuards going on to the next guard after a guard has denied.
runGuards_NoShortCircuit(x, r, h1, h2) ==
  CASE r = "allow" ->
         IF x.gi < GuardCount(x.path)
           THEN Step(Step([x EXCEPT !.gi = @ + 1], "guard:allow"), "guard")
           ELSE updateBefore(Step(x, "guard:allow"), h1, h2)
    [] r = "deny" ->
         IF x.gi < GuardCount(x.path)
           THEN Step(Step([x EXCEPT !.gi = @ + 1], "guard:deny"), "guard")
           ELSE updateFulfil(Step(x, "guard:deny"), "denied")
    [] r = "throw" -> updateReject(Step(x, "guard:throw"))

\* runGuards: the awaited guard call settles.
runGuards(x, r, h1, h2) ==
  CASE r = "allow" ->
         IF x.gi < GuardCount(x.path)
           THEN Step(Step([x EXCEPT !.gi = @ + 1], "guard:allow"), "guard")
           ELSE updateBefore(Step(x, "guard:allow"), h1, h2)
    [] r = "deny" -> updateFulfil(Step(x, "guard:deny"), "denied")
    [] r = "throw" -> updateReject(Step(x, "guard:throw"))

GuardReturn(a) ==
  /\ pc[a] = "GuardCheck"
  /\ \E r \in GuardOutcomes : \E h1, h2 \in HookOutcomes :
        Commit(a, runGuards(View(a), r, h1, h2))
  /\ Continued

\* The awaited onBeforeNavigate(path) settles.
beforeHookReturn(x, r, h1, h2) ==
  IF r = "ok" THEN updateTry(Step(x, "before:ok"), h1, h2)
  ELSE updateReject(Step(x, "before:throw"))

BeforeHookReturn(a) ==
  /\ pc[a] = "BeforeHook"
  /\ \E r, h1, h2 \in HookOutcomes : Commit(a, beforeHookReturn(View(a), r, h1, h2))
  /\ Continued

\* The awaited content provider settles.
providerReturn(x, r, h1, h2) ==
  IF r = "resolve"
    THEN updateSwap(Step(x, "provider:resolve"), PageContent(getContentFunction(x.path)))
    ELSE getPageContentCatch(Step(x, "provider:reject"), "boom", h1, h2)

ProviderReturn(a) ==
  /\ pc[a] = "Resolving"
  /\ \E r \in ProviderOutcomes : \E h1, h2 \in HookOutcomes :
        Commit(a, providerReturn(View(a), r, h1, h2))
  /\ Continued

\* The awaited onAfterNavigate(path) settles.
afterHookReturn(x, r, h) ==
  IF r = "ok" THEN updateFulfil(Step(x, "after:ok"), "resolved")
  ELSE updateCatch(Step(x, "after:throw"), "afterErr", h)

AfterHookReturn(a) ==
  /\ pc[a] = "AfterHook"
  /\ \E r, h \in HookOutcomes : Commit(a, afterHookReturn(View(a), r, h))
  /\ Continued

Next ==
  \E a \in Attempts :
    \/ InitializePage(a)
    \/ Navigate(a)
    \/ PopState(a)
    \/ GuardReturn(a)
    \/ BeforeHookReturn(a)
    \/ ProviderReturn(a)
    \/ AfterHookReturn(a)

Spec == Init /\ [][Next]_vars

\* Every awaited guard, hook and content-provider call eventually settles.
FairSpec ==
  /\ Spec
  /\ \A a \in Attempts :
       /\ WF_vars(GuardReturn(a))
       /\ WF_vars(BeforeHookReturn(a))
       /\ WF_vars(ProviderReturn(a))
       /\ WF_vars(AfterHookReturn(a))

\* ---------------------------------------------------- dynamic registration
\* Paths, content providers and configurations registerRoute is called with:
\* the empty path, a path of the constructor's list and a new one; a
\* configuration with a guard list of some length, or without one.
RegPaths == {"", "home", "extra"}
RegProviders == {"Extra", "Other"}
RouteConfigArgs == {[title |-> "Page"]} \cup {[guards |-> n] : n \in 0..MaxGuards}

\* Map.prototype.set(k, v)
MapSet(m, k, v) == [q \in DOMAIN m \cup {k} |-> IF q = k THEN v ELSE m[q]]

\* registerRoute that keeps the entry a path already has.
registerRoute_KeepFirst(t, p, f, c) ==
  IF p \in DOMAIN t.pages THEN t
  ELSE [pages |-> MapSet(t.pages, p, f),
        routeConfig |-> MapSet(t.routeConfig, p,
                          [guards |-> IF "guards" \in DOMAIN c THEN c.guards ELSE 0])]

\* registerRoute(path, getContentFunction, config) on the route table t (the
\* two maps): both maps are set for the path, guards being config.guards || [].
registerRoute(t, p, f, c) ==
  [pages |-> MapSet(t.pages, p, f),
   routeConfig |-> MapSet(t.routeConfig, p,
                     [guards |-> IF "guards" \in DOMAIN c THEN c.guards ELSE 0])]

\* A feature module calls routes.registerRoute(p, f, c); the call returns
\* normally (the function has no throw statement).
RegisterRoute ==
  /\ reg.n < MaxRegister
  /\ \E p \in RegPaths : \E f \in RegProviders : \E c \in RouteConfigArgs :
       LET t == registerRoute([pages |-> pages, routeConfig |-> routeConfig], p, f, c)
       IN /\ pages' = t.pages
          /\ routeConfig' = t.routeConfig
          /\ reg' = [n |-> reg.n + 1, path |-> p, provider |-> f, config |-> c,
                     threw |-> FALSE]
  /\ UNCHANGED <<config, sink, history, hidx, count, hash, pageReloads, loaded,
                 pc, kind, path, gi, steps, errLog, upc, nav, last, solo,
                 api, comp, form>>

\* The router while routes are being registered.
RegSpec == Init /\ [][RegisterRoute]_vars

\* ------------------------------------------- a table without 'not-found'
\* The constructor called with a list that has no page for 'not-found'.
NoFallbackInit ==
  /\ pages = [p \in RegisteredPaths \ {NOT_FOUND} |-> ConstructPages[p]]
  /\ routeConfig = [p \in RegisteredPaths \ {NOT_FOUND} |-> ConstructRouteConfig[p]]
  /\ InitSession

NoFallbackSpec == NoFallbackInit /\ [][Next]_vars

\* ------------------------------------------- guards in the options
\* The constructor called with a guards list in its options, beside the
\* hooks: { ...config } copies it into this.config, where only its length is
\* kept.  The page list is the same.
GuardedConfigs ==
  [onBeforeNavigate : BOOLEAN, onAfterNavigate : BOOLEAN, onError : BOOLEAN, guards : {1}]

OptionsGuardInit ==
  /\ pages = ConstructPages
  /\ routeConfig = ConstructRouteConfig
  /\ InitSessionWith(GuardedConfigs)

OptionsGuardSpec == OptionsGuardInit /\ [][Next]_vars

\* ---------------------------------------------- navigate without an event
\* navigate(null, page): event.preventDefault() throws a TypeError inside the
\* try block, before pushState and loadPageContent; the catch block shows the
\* navigation error and navigate returns.
navigateWithoutEvent(x) ==
  [showNavigationError(x) EXCEPT !.pc = "Idle", !.nav = "resolved"]

\* The application calls navigate(null, p), as the quick reference shows.
NavigateProgrammatic(a) ==
  /\ loaded
  /\ FreeSlot(a)
  /\ \E p \in NavPaths :
       Commit(a, navigateWithoutEvent([Fresh(a, "programmatic", p) EXCEPT !.upc = "none"]))
  /\ Started(a)
  /\ UNCHANGED <<hash, pageReloads, loaded>>

ProgNext == Next \/ \E a \in Attempts : NavigateProgrammatic(a)

\* The router with links clicked and with navigate called from code.
ProgSpec == Init /\ [][ProgNext]_vars

\* ---------------------------------------------- services/api-service.js
\* API_CONFIG.RETRY_ATTEMPTS and API_CONFIG.RETRY_DELAY of config/constants.js
RETRY_ATTEMPTS == 2
RETRY_DELAY == 1000

\* new APIError(message, code, status); a TypeError has no status property.
APIError(code, status) == [code |-> code, hasStatus |-> TRUE, status |-> status]
TypeErrorValue == [code |-> "TypeError", hasStatus |-> FALSE, status |-> 0]

\* What a function call gives back: a value, or a thrown error.
Returned(v) == [threw |-> FALSE, value |-> v, error |-> NoError]
Threw(e) == [threw |-> TRUE, value |-> "", error |-> e]

\* The retryAttempts property of the constructor's config: absent or a number.
RetryArgs == {[given |-> FALSE, n |-> 0]} \cup {[given |-> TRUE, n |-> k] : k \in 0..MaxRetry}

\* How one fetch ends: the network fails, the timeout aborts it, or a response
\* arrives with a status and a body: a JSON object (or any text), the JSON
\* value null, or JSON that does not parse.
FetchOutcomes ==
  {[fetch |-> f, status |-> 0, body |-> ""] : f \in {"network", "abort"}}
  \cup [fetch : {"response"}, status : {200, 404, 500}, body : {"object", "null", "invalid"}]

\* new APIService(config): this.retryAttempts = config.retryAttempts ||
\* API_CONFIG.RETRY_ATTEMPTS, 0 being falsy.
APIService(c) ==
  [NoService EXCEPT !.pc = "ready", !.given = c.given, !.arg = c.n,
                    !.retryAttempts = IF c.given /\ c.n # 0 THEN c.n ELSE RETRY_ATTEMPTS]

\* parseResponse(response)
parseResponse(o) ==
  IF o.body = "invalid" THEN Threw(APIError("PARSE_ERROR", o.status))
  ELSE Returned(o.body)

\* handleResponse(response): response.ok is a status from 200 to 299; reading
\* errorData.message throws a TypeError when the body parsed to null.
handleResponse(o) ==
  IF ~(o.status >= 200 /\ o.status <= 299)
    THEN LET errorData == parseResponse(o)
         IN IF errorData.threw THEN errorData
            ELSE IF errorData.value = "null" THEN Threw(TypeErrorValue)
            ELSE Threw(APIError("HTTP_ERROR", o.status))
    ELSE parseResponse(o)

\* fetchWithTimeout followed by handleResponse, the fetch ending as o.
attemptResult(o) ==
  CASE o.fetch = "abort" -> Threw(APIError("TIMEOUT", 408))
    [] o.fetch = "network" -> Threw(APIError("NETWORK_ERROR", 0))
    [] OTHER -> handleResponse(o)

\* request's loop from `attempt = 0` to the first awaited fetch.
request(s) ==
  [s EXCEPT !.pc = "fetching", !.attempt = 0, !.fetches = 1, !.delays = <<>>,
            !.outcomes = <<>>, !.result = "none", !.lastError = NoError,
            !.thrown = NoError]

\* request's catch block for error e, and the end of the loop after it.
requestCatch(s, e) ==
  LET s1 == [s EXCEPT !.lastError = e]
  IN IF e.hasStatus /\ e.status >= 400 /\ e.status < 500
       THEN [s1 EXCEPT !.pc = "done", !.result = "rejected", !.thrown = e]
     ELSE IF s.attempt < s.retryAttempts
       THEN [s1 EXCEPT !.pc = "delaying", !.delays = Append(@, RETRY_DELAY * (s.attempt + 1))]
     ELSE [s1 EXCEPT !.pc = "done", !.result = "rejected", !.thrown = e]

\* The awaited fetch of the current attempt ends as o.
attemptSettles(s, o) ==
  LET s1 == [s EXCEPT !.outcomes = Append(@, o)]
      r == attemptResult(o)
  IN IF r.threw THEN requestCatch(s1, r.error)
     ELSE [s1 EXCEPT !.pc = "done", !.result = "resolved"]

\* The awaited delay is over: `continue`, attempt++, the next fetch.
delayElapses(s) ==
  [s EXCEPT !.pc = "fetching", !.attempt = @ + 1, !.fetches = @ + 1]

ApiConstruct ==
  /\ api.pc = "none"
  /\ \E c \in RetryArgs : api' = APIService(c)
  /\ UNCHANGED <<routerVars, comp, form>>

ApiRequest ==
  /\ api.pc = "ready"
  /\ api' = request(api)
  /\ UNCHANGED <<routerVars, comp, form>>

ApiAttemptSettles ==
  /\ api.pc = "fetching"
  /\ \E o \in FetchOutcomes : api' = attemptSettles(api, o)
  /\ UNCHANGED <<routerVars, comp, form>>

ApiDelayElapses ==
  /\ api.pc = "delaying"
  /\ api' = delayElapses(api)
  /\ UNCHANGED <<routerVars, comp, form>>

ApiNext == ApiConstruct \/ ApiRequest \/ ApiAttemptSettles \/ ApiDelayElapses

\* The page as app/global-scope.js sets it up, loaded at the root address.
AppInit ==
  /\ Init
  /\ config = [onBeforeNavigate |-> FALSE, onAfterNavigate |-> TRUE, onError |-> TRUE]
  /\ history = <<"">>
  /\ hash = ""

\* One APIService and one request made with it.
ApiSpec == AppInit /\ [][ApiNext]_vars

\* ------------------------------------------------- components/Component.js
\* What render() of a subclass gives: markup with an element, markup without
\* one (firstElementChild is null), or a throw (the base class's render).
RenderOutcomes == {"element", "text", "throw"}

\* Component c calls, or is called, name.
Call(c, name) ==
  [c EXCEPT !.calls = Append(@, [name |-> name, element |-> c.element,
                                 mounted |-> c.mounted, container |-> c.container])]

\* mount with onMount called before the rendered element is inserted.
mount_OnMountFirst(c, found, r) ==
  IF ~found THEN Call(c, "mount")
  ELSE LET c1 == Call(Call(Call(Call(c, "mount"), "onCreate"), "onMount"), "render")
       IN IF r = "throw" THEN c1
          ELSE Call([Call([c1 EXCEPT !.container = r], "insert")
                       EXCEPT !.element = (r = "element"), !.mounted = TRUE],
                    "attachEventListeners")

\* mount(target): found tells whether the target exists, r is what render()
\* gives.  A missing target and a throwing render end the call with an error.
mount(c, found, r) ==
  IF ~found THEN Call(c, "mount")
  ELSE LET c1 == Call(Call(Call(c, "mount"), "onCreate"), "render")
       IN IF r = "throw" THEN c1
          ELSE Call(Call([Call([c1 EXCEPT !.container = r], "insert")
                            EXCEPT !.element = (r = "element"), !.mounted = TRUE],
                         "attachEventListeners"),
                    "onMount")

\* update(): nothing without an element; replaceChild throws when the new
\* markup has no element.
update(c, r) ==
  IF ~c.element THEN c
  ELSE LET c1 == Call(c, "render")
       IN IF r # "element" THEN c1
          ELSE Call(Call(c1, "replace"), "attachEventListeners")

\* setState(newState)
setState(c, r) ==
  LET c1 == Call(c, "setState")
  IN IF c1.mounted THEN update(c1, r) ELSE c1

\* unmount()
unmount(c) ==
  LET c1 == Call(c, "unmount")
  IN IF c1.element
       THEN [Call(Call(c1, "onDestroy"), "remove")
               EXCEPT !.container = "empty", !.element = FALSE, !.mounted = FALSE]
       ELSE c1

\* The operations called on the component so far.
Operations == {"mount", "setState", "unmount"}
OpsOf(c) == Cardinality({i \in DOMAIN c.calls : c.calls[i].name \in Operations})

Mount ==
  /\ OpsOf(comp) < MaxOps
  /\ \E found \in BOOLEAN : \E r \in RenderOutcomes : comp' = mount(comp, found, r)
  /\ UNCHANGED <<routerVars, api, form>>

SetState ==
  /\ OpsOf(comp) < MaxOps
  /\ \E r \in RenderOutcomes : comp' = setState(comp, r)
  /\ UNCHANGED <<routerVars, api, form>>

Unmount ==
  /\ OpsOf(comp) < MaxOps
  /\ comp' = unmount(comp)
  /\ UNCHANGED <<routerVars, api, form>>

ComponentNext == Mount \/ SetState \/ Unmount

\* One component and the operations called on it.
ComponentSpec == AppInit /\ [][ComponentNext]_vars

\* ------------------------------------------------- utils/form-validator
\* The values a field can hold, and the length of each.
FieldValues == {"", "ab", "a@b.c"}
LengthOf(v) == CASE v = "" -> 0 [] v = "ab" -> 2 [] OTHER -> 5

\* The forms: named fields with a value each.
Forms == [{"email", "note"} -> FieldValues]

\* The names addField, validateField and setError are called with: the two
\* fields of the form and a name the form has no field for.
FieldNames == {"email", "note", "ghost"}

\* The rule lists addField is called with; minLength has the parameter 3.
RuleLists == {<<>>, <<"required">>, <<"required", "email">>, <<"minLength">>}

\* ValidationRules[rule] applied to the string value v.
validator(rule, v) ==
  CASE rule = "required" -> v # ""
    [] rule = "email" -> v = "a@b.c"
    [] rule = "minLength" -> v # "" /\ LengthOf(v) >= 3

\* DefaultErrorMessages[rule]
message(rule) ==
  CASE rule = "required" -> "This field is required."
    [] rule = "email" -> "Please enter a valid email address."
    [] rule = "minLength" -> "Minimum length is 3 characters."

\* new FormValidator(formElement)
FormValidator(elements) ==
  [NoValidator EXCEPT !.pc = "ready", !.elements = elements]

\* Map.prototype.get and has on this.fields
HasField(f, name) == \E i \in DOMAIN f.fields : f.fields[i].name = name
FieldConfig(f, name) == f.fields[CHOOSE i \in DOMAIN f.fields : f.fields[i].name = name]

\* Map.prototype.delete
MapDelete(m, k) == [q \in DOMAIN m \ {k} |-> m[q]]

\* addField(fieldName, rules): Map.set keeps the place of a key it has.
addField(f, name, rules) ==
  [f EXCEPT !.fields =
     IF HasField(f, name)
       THEN [i \in DOMAIN f.fields |->
               IF f.fields[i].name = name THEN [name |-> name, rules |-> rules]
               ELSE f.fields[i]]
       ELSE Append(f.fields, [name |-> name, rules |-> rules])]

\* The first rule of the list that value v fails (0: none).
FirstFailing(rules, v) ==
  IF \E i \in DOMAIN rules : ~validator(rules[i], v)
    THEN CHOOSE i \in DOMAIN rules :
           ~validator(rules[i], v) /\ \A j \in 1..(i - 1) : validator(rules[j], v)
    ELSE 0

\* validateField(fieldName): the validator after the call and what the call
\* returns.
validateField(f, name) ==
  IF ~HasField(f, name) \/ name \notin DOMAIN f.elements
    THEN [f |-> f, returned |-> TRUE]
  ELSE LET rules == FieldConfig(f, name).rules
           k == FirstFailing(rules, f.elements[name])
           cleared == [f EXCEPT !.errors = MapDelete(@, name)]
       IN IF k # 0
            THEN [f |-> [cleared EXCEPT !.errors = MapSet(@, name, message(rules[k]))],
                  returned |-> FALSE]
            ELSE [f |-> cleared, returned |-> TRUE]

\* validateAll's loop from the i-th entry of this.fields on, isValid being ok
\* so far.
RECURSIVE validateFrom(_, _, _)
validateFrom(f, i, ok) ==
  IF i > Len(f.fields) THEN [f |-> f, returned |-> ok]
  ELSE LET r == validateField(f, f.fields[i].name)
       IN validateFrom(r.f, i + 1, ok /\ r.returned)

\* validateAll()
validateAll(f) == validateFrom(f, 1, TRUE)

\* setError(fieldName, message)
setError(f, name, msg) ==
  IF name \in DOMAIN f.elements THEN [f EXCEPT !.errors = MapSet(@, name, msg)] ELSE f

\* isValid()
isValid(f) == DOMAIN f.errors = {}

\* getErrors()
getErrors(f) == f.errors

Called(f, op, name, returned) ==
  [f EXCEPT !.last = [op |-> op, field |-> name, returned |-> returned], !.n = @ + 1]

FormConstruct ==
  /\ form.pc = "none"
  /\ \E e \in Forms : form' = FormValidator(e)
  /\ UNCHANGED <<routerVars, api, comp>>

AddField ==
  /\ form.pc = "ready" /\ form.n < MaxFormOps
  /\ \E name \in FieldNames : \E rules \in RuleLists :
       form' = Called(addField(form, name, rules), "addField", name, TRUE)
  /\ UNCHANGED <<routerVars, api, comp>>

ValidateField ==
  /\ form.pc = "ready" /\ form.n < MaxFormOps
  /\ \E name \in FieldNames :
       LET r == validateField(form, name)
       IN form' = Called(r.f, "validateField", name, r.returned)
  /\ UNCHANGED <<routerVars, api, comp>>

SetError ==
  /\ form.pc = "ready" /\ form.n < MaxFormOps
  /\ \E name \in FieldNames :
       form' = Called(setError(form, name, "custom"), "setError", name, TRUE)
  /\ UNCHANGED <<routerVars, api, comp>>

ValidateAll ==
  /\ form.pc = "ready" /\ form.n < MaxFormOps
  /\ LET r == validateAll(form)
     IN form' = Called(r.f, "validateAll", "", r.returned)
  /\ UNCHANGED <<routerVars, api, comp>>

FormNext == FormConstruct \/ AddField \/ ValidateField \/ SetError \/ ValidateAll

\* One validator on one form and the calls made on it.
FormSpec == AppInit /\ [][FormNext]_vars

\* ------------------------------------------------------------ properties
Has(a, s) == \E i \in DOMAIN steps[a] : steps[a][i] = s

CountOf(a, s) == Cardinality({i \in DOMAIN steps[a] : steps[a][i] = s})

\* Attempt a has settled: its caller's promise is fulfilled or rejected.
Settled(a) == pc[a] = "Idle" /\ nav[a] \in {"resolved", "rejected"}

\* Attempt a has settled, no other attempt was in flight while it ran and
\* none has started since.
RanAlone(a) == a = last /\ solo /\ Settled(a)

\* Attempt a takes the step.
Ran(a) == steps'[a] # steps[a]

SinkWrites == {"loading", "swap", "errorPanel", "navError"}

IsPrefix(s, t) == Len(s) <= Len(t) /\ SubSeq(t, 1, Len(s)) = s

\* C1: the promise of navigate(event, path), called with a click event, is
\* never rejected, however the guards, the hooks and the content provider
\* settle.
C1_NavigateNeverRejects ==
  \A a \in Attempts : kind[a] = "navigate" => nav[a] # "rejected"

\* A navigate call during which updatePageContent failed has returned.
C1_Witness ==
  \E a \in Attempts : kind[a] = "navigate" /\ upc[a] = "rejected" /\ nav[a] = "resolved"

\* C2: after navigate(P) for a registered path P whose guards all allow and
\* whose content provider resolves has settled, with no other navigation in
\* flight, the Content Sink holds the content of P's provider, the address is
\* /P and one history entry was pushed.
C2_RegisteredPathShown ==
  \A a \in Attempts :
    ( /\ RanAlone(a) /\ kind[a] = "navigate" /\ path[a] \in DOMAIN pages
      /\ ~Has(a, "guard:deny") /\ ~Has(a, "guard:throw")
      /\ ~Has(a, "provider:reject") )
    => /\ sink = PageContent(pages[path[a]])
       /\ Address = path[a]
       /\ CountOf(a, "push") = 1

\* C3: after navigate(P) for a path P that is not in the route table, with a
\* not-found entry whose provider resolves, the Content Sink holds the
\* not-found content.
C3_UnregisteredPathShowsNotFound ==
  \A a \in Attempts :
    ( /\ RanAlone(a) /\ kind[a] = "navigate" /\ path[a] \notin DOMAIN pages
      /\ NOT_FOUND \in DOMAIN pages /\ ~Has(a, "provider:reject") )
    => sink = PageContent(pages[NOT_FOUND])

\* C4: an attempt one of whose guards denies writes nothing to the Content
\* Sink: none of its steps is a write, and every run of its code, from its
\* start until the denial, leaves the Content Sink as it was.
C4_DeniedAttemptWritesNothing ==
  /\ [](\A a \in Attempts :
          upc[a] = "denied" => \A i \in DOMAIN steps[a] : steps[a][i] \notin SinkWrites)
  /\ [][\A a \in Attempts :
          (Ran(a) /\ (pc'[a] = "GuardCheck" \/ upc'[a] = "denied")) => sink' = sink]_vars

\* A guard has denied an attempt while the Content Sink shows a page.
C4_Witness ==
  \E a \in Attempts :
    /\ upc[a] = "denied" /\ Has(a, "guard:allow") /\ Has(a, "guard:deny")
    /\ sink.kind = "page"

\* C5: after an attempt whose content provider rejected with E has settled,
\* the Content Sink shows the error panel and the registered onError hook
\* was called exactly once in the attempt, with (E, P).
C5_ProviderFailureReportedOnce ==
  \A a \in Attempts :
    (RanAlone(a) /\ Has(a, "provider:reject"))
    => /\ sink.kind = "error"
       /\ config.onError => errLog[a] = << <<"boom", path[a]>> >>

\* C6: the promise of updatePageContent(path) is never rejected.
C6_UpdateNeverRejects ==
  \A a \in Attempts : upc[a] # "rejected"

\* C7: a navigation whose before-navigation hook failed still goes on to the
\* loading state, the content provider and the content swap.
C7_BeforeHookFailureDoesNotStop ==
  \A a \in Attempts :
    (Settled(a) /\ Has(a, "before:throw"))
    => Has(a, "loading") /\ Has(a, "provider") /\ Has(a, "swap")

\* C8: the run of code in which the after-navigation hook's failure is
\* handled leaves the Content Sink holding the content that was displayed.
C8_AfterHookFailureKeepsContent ==
  [][\A a \in Attempts :
       (Has(a, "after") /\ ~Has(a, "after:throw")
        /\ \E i \in DOMAIN steps'[a] : steps'[a][i] = "after:throw")
       => sink' = sink]_vars

\* The steps of the navigation cycle and the outcomes that let it go on.
CycleSteps ==
  {"guard", "guard:allow", "before", "before:ok", "loading", "provider",
   "provider:resolve", "provider:reject", "swap", "after"}

InCycle(s) == s \in CycleSteps

\* The full cycle for path p, r being how the provider settles: every guard
\* called and allowing, the before hook called and returned, the loading
\* state, the provider called and settled, the swap, the after hook called.
Cycle(p, r) ==
  [i \in 1..(2 * GuardCount(p)) |-> IF i % 2 = 1 THEN "guard" ELSE "guard:allow"]
  \o (IF config.onBeforeNavigate THEN <<"before", "before:ok">> ELSE <<>>)
  \o <<"loading">>
  \o (IF getContentFunction(p) # Undefined THEN <<"provider", r>> ELSE <<>>)
  \o <<"swap">>
  \o (IF config.onAfterNavigate THEN <<"after">> ELSE <<>>)

\* C9: the steps of one attempt follow the cycle's order, none skipped and
\* none begun before the previous one has completed: guards, before hook,
\* loading state, provider call, content swap, after hook.
C9_StepsInOrder ==
  \A a \in Attempts :
    \E r \in {"provider:resolve", "provider:reject"} :
      IsPrefix(SelectSeq(steps[a], InCycle), Cycle(path[a], r))

\* An attempt for the guarded path has gone through the whole cycle, both
\* hooks being registered.
C9_Witness ==
  \E a \in Attempts :
    /\ path[a] = "admin" /\ config.onBeforeNavigate /\ config.onAfterNavigate
    /\ Has(a, "after:ok")

\* C10: every attempt in flight eventually settles, and an attempt whose
\* caller's promise has settled takes no further step: it writes nothing
\* more to the Content Sink.
C10_AttemptsSettle ==
  /\ \A a \in Attempts : (pc[a] # "Idle") ~> (pc[a] = "Idle")
  /\ [][\A a \in Attempts :
          (nav[a] \in {"resolved", "rejected"} /\ count' = count) => ~Ran(a)]_vars

\* A denied, a failed and a successful attempt have all settled: the first
\* two in the slots, the last as the content on display.
C10_Witness ==
  \E a, b \in Attempts :
    /\ Settled(a) /\ upc[a] = "denied"
    /\ Settled(b) /\ upc[b] = "rejected" /\ kind[b] = "popstate"

\* C11: the after-navigation hook is called only on the success branch: an
\* attempt whose content provider rejected or threw never calls
\* onAfterNavigate.
C11_NoAfterHookOnFailure ==
  \A a \in Attempts : Has(a, "provider:reject") => ~Has(a, "after")

\* Attempt a runs code in the step: it starts, or it goes on.
Acts(a) == Ran(a) \/ (count' # count /\ last' = a)

\* The page window.onpopstate derives from the address.
PageOfAddress == IF Address # "" THEN Address ELSE IF hash # "" THEN hash ELSE HOME

\* C12: a popstate-driven attempt never pushes or replaces a history entry,
\* takes its path from the current address, and runs the same cycle as
\* navigate: it gets past the guards only when every guard of the route has
\* allowed, and a denial leaves it without any write to the Content Sink.
C12_PopstateSameCycle ==
  /\ [](\A a \in Attempts :
          kind[a] = "popstate"
          => /\ ~Has(a, "push")
             /\ (Has(a, "before") \/ Has(a, "loading") \/ Has(a, "swap"))
                  => CountOf(a, "guard:allow") = GuardCount(path[a])
             /\ Has(a, "guard:deny")
                  => upc[a] = "denied" /\ \A i \in DOMAIN steps[a] : steps[a][i] \notin SinkWrites)
  /\ [][\A a \in Attempts :
          (Acts(a) /\ kind'[a] = "popstate")
          => /\ history' = history
             /\ (kind[a] # "popstate" \/ count' # count) => path'[a] = PageOfAddress'
             /\ Has(a, "guard:deny")' => sink' = sink]_vars

\* A back or forward transition to the guarded page was denied by its second
\* guard, the history holding more than one entry.
C12_Witness ==
  \E a \in Attempts :
    /\ kind[a] = "popstate" /\ path[a] = "admin" /\ Len(history) > 1
    /\ Has(a, "guard:allow") /\ upc[a] = "denied"

GuardSteps == {"guard", "guard:allow", "guard:deny", "guard:throw"}

IsGuardStep(s) == s \in GuardSteps

\* The guard calls of attempt a and how each settled, in order.
GuardTrace(a) == SelectSeq(steps[a], IsGuardStep)

\* runGuards has returned true for attempt a: updatePageContent went on.
GuardsPassed(a) == Has(a, "before") \/ Has(a, "loading")

\* C13: runGuards returns true iff every guard of the route allowed.  The
\* guards are called one at a time in the order of the list, each call
\* settled before the next is made, none is called after a guard that did
\* not allow, there are no more calls than guards, and with an empty list
\* runGuards returns true without a call.
C13_RunGuards ==
  \A a \in Attempts :
    kind[a] # "none" =>
      LET g == GuardTrace(a)
          n == GuardCount(path[a])
      IN /\ Len(g) <= 2 * n
         /\ CountOf(a, "guard") = gi[a]
         /\ \A i \in DOMAIN g :
              /\ i % 2 = 1 => g[i] = "guard"
              /\ i % 2 = 0 => g[i] # "guard"
              /\ (i % 2 = 0 /\ i < Len(g)) => g[i] = "guard:allow"
         /\ GuardsPassed(a) <=> (Len(g) = 2 * n /\ \A i \in DOMAIN g : g[i] # "guard:deny" /\ g[i] # "guard:throw")
         /\ upc[a] = "denied" <=> Has(a, "guard:deny")
         /\ n = 0 => g = <<>> /\ GuardsPassed(a)

\* One attempt was denied by the second guard of its route while another,
\* all of whose guards allowed, is past the guards; a third path has no
\* guard at all.
C13_Witness ==
  \E a, b \in Attempts :
    /\ GuardTrace(a) = <<"guard", "guard:allow", "guard", "guard:deny">>
    /\ upc[a] = "denied"
    /\ CountOf(b, "guard:allow") = MaxGuards /\ GuardsPassed(b)
    /\ GuardCount("home") = 0

\* The errors the router's error page is built from.
ErrorValues == {"boom", "afterErr", "hookErr", "TypeError"}

\* The whole values: the initial content, the loading placeholder, an error
\* panel, or the output of one content provider of the route table.
WholeValues ==
  {InitialContent, LoadingPlaceholder, NavErrorPanel}
  \cup {getErrorPageContent(e) : e \in ErrorValues}
  \cup {PageContent(pages[p]) : p \in DOMAIN pages}

\* C14: in every reachable state, whatever the interleaving of the attempts
\* in flight, the Content Sink holds exactly one whole value.
C14_SinkHoldsOneWholeValue == sink \in WholeValues

\* Two attempts are in flight: one has swapped its page in and awaits its
\* after hook, the other has since put the loading placeholder in its place.
C14_Witness ==
  \E a, b \in Attempts :
    /\ a # b /\ pc[a] = "AfterHook" /\ Has(a, "provider:resolve")
    /\ pc[b] = "Resolving" /\ sink = LoadingPlaceholder

\* Attempts a and b are navigate calls that overlapped, b being the one
\* invoked later; both have settled after their providers resolved and
\* their content was swapped in without a later failure.
BothSwapped(a, b) ==
  /\ a # b /\ last = b /\ ~solo
  /\ \A c \in {a, b} :
       /\ kind[c] = "navigate" /\ Settled(c)
       /\ Has(c, "provider:resolve") /\ Has(c, "swap")
       /\ ~Has(c, "errorPanel") /\ ~Has(c, "navError")

\* The content of the page at path p.
ContentOf(p) == PageContent(getContentFunction(p))

\* C15 as stated: after navigate(B), invoked while navigate(A) was in flight,
\* and navigate(A) have both settled, the Content Sink shows B's content.
C15_LaterCallWins ==
  \A a, b \in Attempts : BothSwapped(a, b) => sink = ContentOf(path[b])

\* C15, amended: the two swaps happen in the order in which the two content
\* providers settle, whichever call was invoked first.  The run of code in
\* which an attempt's provider resolves replaces the Content Sink with that
\* attempt's content, whatever another attempt has written, and after both
\* calls have settled the Content Sink shows A's or B's content.
C15_LastSwapWins ==
  /\ [](\A a, b \in Attempts :
          BothSwapped(a, b) => sink \in {ContentOf(path[a]), ContentOf(path[b])})
  /\ [][\A a \in Attempts :
          (Has(a, "provider:resolve")' /\ ~Has(a, "provider:resolve") /\ pc[a] = "Resolving")
          => sink' = ContentOf(path[a])]_vars

\* Both calls have settled and the Content Sink shows the content of the
\* call invoked first, which differs from the content of the later call.
C15_Witness ==
  \E a, b \in Attempts :
    /\ BothSwapped(a, b)
    /\ sink = ContentOf(path[a]) /\ ContentOf(path[a]) # ContentOf(path[b])

\* C16: the Content Sink is written only inside the router's update cycle: no
\* attempt has a write made by the application's own error handling
\* (showNavigationError in navigate, the popstate handler or initialisation).
C16_SinkWrittenOnlyInCycle ==
  \A a \in Attempts : ~Has(a, "navError") /\ sink # NavErrorPanel

\* C17: registerRoute called with the empty path fails with a configuration
\* error and leaves both maps of the route table without an entry for it.
C17_EmptyPathRejected ==
  (reg.n > 0 /\ reg.path = "")
  => reg.threw /\ "" \notin DOMAIN pages /\ "" \notin DOMAIN routeConfig

\* The guard list a registerRoute call with configuration c stores.
StoredGuards(c) == IF "guards" \in DOMAIN c THEN c.guards ELSE 0

\* C18: the route table only grows or is overwritten, the last writer
\* winning.  The two maps have the same paths; the entry of the path
\* registered last is the provider and the configuration of that call; a
\* call leaves the entry of every other path as it was; a path that has an
\* entry keeps having one.
C18_LastWriterWins ==
  /\ [](/\ DOMAIN pages = DOMAIN routeConfig
        /\ reg.n > 0 => /\ pages[reg.path] = reg.provider
                        /\ routeConfig[reg.path] = [guards |-> StoredGuards(reg.config)])
  /\ [][\A q \in DOMAIN pages :
          /\ q \in DOMAIN pages'
          /\ q # reg'.path => pages'[q] = pages[q] /\ routeConfig'[q] = routeConfig[q]]_vars

\* A path of the constructor's list has been overwritten and a new path has
\* been added, the other paths keeping their entries.
C18_Witness ==
  /\ reg.n = 2
  /\ pages["home"] \in RegProviders /\ routeConfig["home"].guards = MaxGuards
  /\ "extra" \in DOMAIN pages /\ routeConfig["extra"].guards = 0
  /\ pages["index.html"] = "Home" /\ pages[NOT_FOUND] = "NotFound"

\* C19: when the route table has no 'not-found' entry, an attempt for a path
\* that is not in the table is not handled as a recoverable failure of that
\* navigation: no content and no error page is put into the Content Sink
\* for it and the onError hook is not called as for a failed provider.
C19_MissingFallbackIsFatal ==
  \A a \in Attempts :
    (kind[a] # "none" /\ path[a] \notin DOMAIN pages /\ NOT_FOUND \notin DOMAIN pages)
    => /\ ~Has(a, "swap") /\ ~Has(a, "errorPanel") /\ ~Has(a, "after")
       /\ errLog[a] = <<>>

\* Attempt a swaps the resolved content of its provider in during the step.
SwapsResolved(a) ==
  pc[a] = "Resolving" /\ ~Has(a, "provider:resolve") /\ Has(a, "provider:resolve")'

\* C20: the navigation counter never decreases and counts the successful
\* content swaps: a step changes it exactly when an attempt swaps the
\* resolved content of its provider into the Content Sink, and then by one.
C20_CounterCountsSwaps ==
  [][/\ count' >= count
     /\ count' # count <=> \E a \in Attempts : SwapsResolved(a)
     /\ count' # count => count' = count + 1]_vars

\* C21: when a guard denies the navigation to path P and an onError hook is
\* registered, the hook is called for the denial, with path P.
C21_DenialReportedToOnError ==
  \A a \in Attempts :
    (config.onError /\ upc[a] = "denied")
    => \E i \in DOMAIN errLog[a] : errLog[a][i][2] = path[a]

\* No attempt is in flight.
Quiescent == \A a \in Attempts : pc[a] = "Idle"

\* C28: whenever no attempt is in flight the Content Sink does not show the
\* loading placeholder, and every settled attempt that wrote the placeholder
\* wrote content or an error panel after it.
C28_NoLoadingLeftBehind ==
  /\ Quiescent => sink # LoadingPlaceholder
  /\ \A a \in Attempts :
       Settled(a) =>
         \A i \in DOMAIN steps[a] :
           steps[a][i] = "loading"
           => \E j \in DOMAIN steps[a] : j > i /\ steps[a][j] \in {"swap", "errorPanel"}

\* Two overlapping attempts have settled, one after a failing provider whose
\* onError call threw, the other after a failing after hook.
C28_Witness ==
  \E a, b \in Attempts :
    /\ Quiescent /\ ~solo /\ a # b
    /\ Has(a, "loading") /\ Has(a, "provider:reject") /\ upc[a] = "rejected"
    /\ Has(b, "loading") /\ Has(b, "after:throw")

\* C29: whenever no attempt is in flight, the latest one being a navigate
\* call, the Content Sink shows the outcome
\* of the navigation to the page of the address: that page's content (the
\* not-found content for a path not in the table) or an error panel, never
\* the content of a different page.
C29_AddressAndSinkAgree ==
  (Quiescent /\ last # 0 /\ kind[last] = "navigate")
  => \/ sink = ContentOf(PageOfAddress)
     \/ sink.kind \in {"error", "navError"}

\* C22: navigate(null, P), settled with no other attempt in flight, has
\* pushed the address /P and has not left the navigation error panel in the
\* Content Sink.
C22_ProgrammaticNavigation ==
  \A a \in Attempts :
    (RanAlone(a) /\ kind[a] = "programmatic")
    => Has(a, "push") /\ Address = path[a] /\ sink # NavErrorPanel

\* C23: with a guard in the guards list of the constructor's options that
\* returns { allowed: false, redirect: 'home' } for every path but 'home',
\* the Content Sink never receives the content of a page other than home.
C23_OptionsGuardBlocks ==
  "guards" \in DOMAIN config
  => sink \notin {ContentOf(p) : p \in NavPaths \ {HOME}}

\* Every attempt of the request failed with a network error or a 5xx response.
AllRetryable ==
  \A i \in DOMAIN api.outcomes :
    \/ api.outcomes[i].fetch = "network"
    \/ api.outcomes[i].fetch = "response" /\ api.outcomes[i].status >= 500

\* C24: a request of an APIService constructed with retryAttempts = n, all of
\* whose attempts fail with a retryable failure, makes exactly n + 1 fetches
\* and then rejects with the error of the last attempt.
C24_RetriesAsConfigured ==
  (api.pc = "done" /\ api.given /\ AllRetryable)
  => /\ api.fetches = api.arg + 1
     /\ api.result = "rejected"
     /\ api.thrown = attemptResult(api.outcomes[Len(api.outcomes)]).error

IsClientErrorResponse(o) == o.fetch = "response" /\ o.status >= 400 /\ o.status <= 499

\* C26: an attempt that produces a response with a status from 400 to 499 is
\* the last attempt of its request: the request rejects at once, without a
\* delay or a further fetch, and when it is the first attempt exactly one
\* fetch was made.
C26_ClientErrorsNotRetried ==
  \A i \in DOMAIN api.outcomes :
    IsClientErrorResponse(api.outcomes[i])
    => /\ i = Len(api.outcomes)
       /\ api.pc = "done" /\ api.result = "rejected"
       /\ api.fetches = i /\ Len(api.delays) = i - 1

\* C27: a request all of whose attempts time out makes retryAttempts + 1
\* fetches and then rejects with the timeout error.
C27_TimeoutsRetried ==
  ( /\ api.pc = "done" /\ api.outcomes # <<>>
    /\ \A i \in DOMAIN api.outcomes : api.outcomes[i].fetch = "abort" )
  => /\ api.fetches = api.retryAttempts + 1
     /\ api.result = "rejected" /\ api.thrown.code = "TIMEOUT"

\* The i-th entry of the component's calls is name.
IsCall(i, name) == i \in DOMAIN comp.calls /\ comp.calls[i].name = name

\* C25: mount calls onCreate, render, the insertion of the markup into the
\* target, attachEventListeners and onMount in this order: onCreate comes
\* before the render, and at onMount the markup is in the target, the
\* component is marked mounted and has its element when the markup has one.
\* unmount calls onDestroy only when the component has an element, while this
\* element is still in the target, and removes the element right after.
C25_LifecycleOrder ==
  \A i \in DOMAIN comp.calls :
    LET e == comp.calls[i]
    IN /\ e.name = "onCreate" => IsCall(i - 1, "mount") /\ IsCall(i + 1, "render")
       /\ e.name = "insert" => IsCall(i - 2, "onCreate") /\ IsCall(i - 1, "render")
       /\ e.name = "onMount"
            => /\ IsCall(i - 5, "mount") /\ IsCall(i - 4, "onCreate")
               /\ IsCall(i - 3, "render") /\ IsCall(i - 2, "insert")
               /\ IsCall(i - 1, "attachEventListeners")
               /\ e.mounted /\ e.container # "empty"
               /\ e.container = "element" => e.element
       /\ e.name = "onDestroy"
            => /\ IsCall(i - 1, "unmount") /\ IsCall(i + 1, "remove")
               /\ e.element /\ e.container = "element"
       /\ e.name = "remove" => IsCall(i - 1, "onDestroy")
       /\ (e.name = "unmount" /\ ~e.element) => ~IsCall(i + 1, "onDestroy")

\* A component was mounted and unmounted, and unmount was called again when
\* it had no element any more.
C25_Witness ==
  /\ \E i \in DOMAIN comp.calls : comp.calls[i].name = "onMount" /\ comp.calls[i].element
  /\ \E i \in DOMAIN comp.calls : comp.calls[i].name = "onDestroy"
  /\ IsCall(Len(comp.calls), "unmount")

\* The field is registered, the form has it and its value fails a rule.
FailsValidation(name) ==
  /\ HasField(form, name) /\ name \in DOMAIN form.elements
  /\ FirstFailing(FieldConfig(form, name).rules, form.elements[name]) # 0

\* C30: right after validateAll() has returned r, isValid() returns r and
\* getErrors() has an entry for a field exactly when the field is registered
\* and fails one of its rules, the entry being the message of the first rule
\* it fails.
C30_ErrorsAgreeWithValidation ==
  form.last.op = "validateAll"
  => /\ isValid(form) = form.last.returned
     /\ \A name \in FieldNames :
          /\ name \in DOMAIN getErrors(form) <=> FailsValidation(name)
          /\ FailsValidation(name)
               => getErrors(form)[name] =
                    message(FieldConfig(form, name).rules[
                              FirstFailing(FieldConfig(form, name).rules, form.elements[name])])

====
